---- MODULE Spec2Model ----
(***************************************************************************)
(* A model of SiloRider's formatting engine (silorider/format.py), its     *)
(* silo loader and media pipeline (silorider/silos/base.py), and the       *)
(* Bluesky URL flattener, link-preview builder and posting step            *)
(* (silorider/silos/bluesky.py).                                           *)
(*                                                                         *)
(* Text is a sequence of one-character strings.  A deferred-URL marker     *)
(* '%(url:N)s' is kept as one token of such a sequence; it never counts    *)
(* as text, because the code substitutes every marker before any length    *)
(* of a marked text is taken.                                              *)
(***************************************************************************)
EXTENDS Integers, Sequences, FiniteSets, TLC

(***************************************************************************)
(* Bounds of the model.                                                    *)
(***************************************************************************)
\* documents are sequences of at most MaxBlocks top-level nodes
MaxBlocks == 2
\* entries' contents are sequences of at most MaxEntryBlocks nodes
MaxEntryBlocks == 1
\* character limits tried by the stripping pass and by format_entry: 0..MaxLimit
MaxLimit == 9
\* shorten_text is tried on the texts of at most MaxTextLen characters
MaxTextLen == 5

(***************************************************************************)
(* Text helpers (Python str semantics).                                    *)
(***************************************************************************)
None == <<"None">>

\* str.isspace() of one character / string.whitespace
IsSpaceChar(c) == c \in {" ", "\n", "\t"}

\* str.isspace(): non-empty and every character is whitespace
IsSpace(s) == Len(s) > 0 /\ \A i \in 1..Len(s) : IsSpaceChar(s[i])

\* len(c.encode()) of one character: UTF-8 width
ByteLenChar(c) == IF c \in {"é"} THEN 2 ELSE 1

RECURSIVE ByteLen(_)
\* len(txt.encode())
ByteLen(s) == IF s = <<>> THEN 0 ELSE ByteLenChar(Head(s)) + ByteLen(Tail(s))

RECURSIVE Concat(_)
\* ''.join(list)
Concat(ss) == IF ss = <<>> THEN <<>> ELSE Head(ss) \o Concat(Tail(ss))

\* a in b for strings: a is a contiguous substring of b
IsSubstring(a, b) ==
    \E i \in 0..(Len(b) - Len(a)) : SubSeq(b, i + 1, i + Len(a)) = a

RECURSIVE EscapePercents(_)
\* _escape_percents: txt.replace('%', '%%')
EscapePercents(s) ==
    IF s = <<>> THEN <<>>
    ELSE (IF Head(s) = "%" THEN <<"%", "%">> ELSE <<Head(s)>>)
         \o EscapePercents(Tail(s))

RECURSIVE SplitWords(_, _)
\* text.split(): the maximal runs of non-whitespace characters, in order;
\* cur is the run being read
SplitWords(s, cur) ==
    IF s = <<>> THEN (IF cur = <<>> THEN <<>> ELSE <<cur>>)
    ELSE IF IsSpaceChar(Head(s))
         THEN (IF cur = <<>> THEN <<>> ELSE <<cur>>) \o SplitWords(Tail(s), <<>>)
         ELSE SplitWords(Tail(s), Append(cur, Head(s)))

RECURSIVE Chunks(_)
\* TextWrapper._split_chunks of ' '.join(words): word, ' ', word, ...
Chunks(words) ==
    IF Len(words) <= 1 THEN words
    ELSE <<Head(words), <<" ">>>> \o Chunks(Tail(words))

RECURSIVE TotalLen(_)
\* sum(map(len, chunks))
TotalLen(cs) == IF cs = <<>> THEN 0 ELSE Len(Head(cs)) + TotalLen(Tail(cs))

Front(s) == SubSeq(s, 1, Len(s) - 1)

Last(s) == s[Len(s)]

\* chunk.strip() == ''
IsBlank(c) == c = <<>> \/ IsSpace(c)

RECURSIVE TakeFit(_, _, _)
\* TextWrapper._wrap_chunks, inner loop: the number of leading chunks that
\* fit the width together
TakeFit(cs, len, width) ==
    IF cs = <<>> \/ len + Len(Head(cs)) > width THEN 0
    ELSE 1 + TakeFit(Tail(cs), len + Len(Head(cs)), width)

RECURSIVE PlaceHolder(_, _)
\* TextWrapper._wrap_chunks, max_lines branch: drop trailing chunks until
\* the line ends in a word and has room for '...', then append it
PlaceHolder(line, width) ==
    IF line = <<>> THEN <<".", ".", ".">>
    ELSE IF ~IsBlank(Last(line)) /\ TotalLen(line) + 3 <= width
         THEN Concat(line) \o <<".", ".", ".">>
         ELSE PlaceHolder(Front(line), width)

\* TextWrapper._wrap_chunks, the end of the only line: the text of the
\* line if all of the text is on it, else the line with the placeholder
PlaceLine(line, rest, width) ==
    IF line = <<>> THEN <<>>
    ELSE IF rest = <<>> /\ TotalLen(line) <= width THEN Concat(line)
    ELSE PlaceHolder(line, width)

\* TextWrapper._wrap_chunks, drop_whitespace: one trailing blank chunk is
\* dropped from the line
DropWhitespace(line, rest, width) ==
    PlaceLine(IF line # <<>> /\ IsBlank(Last(line)) THEN Front(line) ELSE line,
              rest, width)

\* TextWrapper._handle_long_word: the first n chunks fit the line; a next
\* chunk longer than the width is broken at the room left on the line
HandleLongWord(cs, n, width) ==
    LET fit  == SubSeq(cs, 1, n)
        rest == SubSeq(cs, n + 1, Len(cs))
        long == rest # <<>> /\ Len(rest[1]) > width
        room == width - TotalLen(fit)
    IN  DropWhitespace(
            IF long THEN Append(fit, SubSeq(rest[1], 1, room)) ELSE fit,
            IF long
            THEN <<SubSeq(rest[1], room + 1, Len(rest[1]))>> \o Tail(rest)
            ELSE rest,
            width)

\* TextWrapper._wrap_chunks on the chunks of the text
WrapChunks(cs, width) == HandleLongWord(cs, TakeFit(cs, 0, width), width)

\* textwrap.shorten(txt, width, placeholder='...'): [err, text].
\* ValueError when the width is not positive or has no room for '...'.
TextwrapShorten(txt, width) ==
    IF width < 3 THEN [err |-> "ValueError", text |-> <<>>]
    ELSE [err |-> "none",
          text |-> WrapChunks(Chunks(SplitWords(txt, <<>>)), width)]

(***************************************************************************)
(* URL modes (format.py:145-148).                                          *)
(***************************************************************************)
URLMODE_INLINE == 0
URLMODE_LAST == 1
URLMODE_BOTTOM_LIST == 2
URLMODE_ERASE == 3

UrlModes == {URLMODE_INLINE, URLMODE_LAST, URLMODE_BOTTOM_LIST, URLMODE_ERASE}

(***************************************************************************)
(* Parsed HTML: a node is a text node or an element with children.         *)
(***************************************************************************)
Txt(s) == [tag |-> "text", txt |-> s, href |-> None, kids |-> <<>>]

Elem(tag, kids) == [tag |-> tag, txt |-> <<>>, href |-> None, kids |-> kids]

Link(href, kids) == [tag |-> "a", txt |-> <<>>, href |-> href, kids |-> kids]

tags_valid_for_whitespace == {"h1", "h2", "h3", "h4", "h5", "h6", "p"}

RECURSIVE StringOf(_)
\* bs4's .string: a text node's text; an element's if it has one child
\* that has a .string; None otherwise
StringOf(n) ==
    IF n.tag = "text" THEN n.txt
    ELSE IF Len(n.kids) = 1 THEN StringOf(n.kids[1])
    ELSE None

(***************************************************************************)
(* HtmlStrippingContext.  fl_urls is the state of the url_flattener object *)
(* the context points to (BlueskyUrlFlattener.urls); err is the exception  *)
(* that ended the pass, "none" while it runs normally.                     *)
(***************************************************************************)
NewContext ==
    [silo_type |-> "unknown", url_mode |-> URLMODE_LAST, handlers |-> <<>>,
     url_flattener |-> "null", limit |-> -1,
     urls |-> <<>>, nosp_urls |-> <<>>,
     text_length |-> 0, byte_length |-> 0, limit_reached |-> FALSE,
     fl_urls |-> <<>>, err |-> "none"]

Raise(ctx, ex) == [ctx EXCEPT !.err = ex]

\* HtmlStrippingContext.reportAddedText(added_chars)
ReportAddedText(ctx, added_chars) ==
    [ctx EXCEPT !.text_length = @ + added_chars, !.byte_length = @ + added_chars]

\* HtmlStrippingContext.reportSetText(charlen, bytelen)
ReportSetText(ctx, charlen, bytelen) ==
    [ctx EXCEPT !.text_length = charlen, !.byte_length = bytelen]

\* HtmlStrippingContext.processText, lines 204-207: the shortened text is
\* counted and returned
ShortenedText(ctx, short) ==
    IF short.err # "none" THEN [txt |-> <<>>, ctx |-> Raise(ctx, short.err)]
    ELSE [txt |-> short.text,
          ctx |-> [ctx EXCEPT !.text_length = @ + Len(short.text),
                              !.byte_length = @ + ByteLen(short.text),
                              !.limit_reached = TRUE]]

\* HtmlStrippingContext.processText(txt, allow_shorten): [txt, ctx]
ProcessText(ctx, txt, allow_shorten) ==
    IF ctx.limit <= 0 \/ ctx.text_length + Len(txt) <= ctx.limit
    THEN [txt |-> txt,
          ctx |-> [ctx EXCEPT !.text_length = @ + Len(txt),
                              !.byte_length = @ + ByteLen(txt)]]
    ELSE IF allow_shorten
    THEN ShortenedText(ctx, TextwrapShorten(txt, ctx.limit - ctx.text_length))
    ELSE [txt |-> <<>>, ctx |-> [ctx EXCEPT !.limit_reached = TRUE]]

(***************************************************************************)
(* URL flatteners and profile-URL handlers.                                *)
(***************************************************************************)
Upper == {"A", "B", "C", "D", "E", "F", "G", "H", "I", "J", "K", "L", "M",
          "N", "O", "P", "Q", "R", "S", "T", "U", "V", "W", "X", "Y", "Z"}

Lower == {"a", "b", "c", "d", "e", "f", "g", "h", "i", "j", "k", "l", "m",
          "n", "o", "p", "q", "r", "s", "t", "u", "v", "w", "x", "y", "z"}

Digits == {"0", "1", "2", "3", "4", "5", "6", "7", "8", "9"}

\* the characters the regular expression class \w matches
WordChars == Lower \cup Upper \cup Digits \cup {"_", "é"}

\* the least index i >= from with s[i] in set, Len(s) + 1 when there is none
FirstIn(s, set, from) ==
    IF \E i \in from..Len(s) : s[i] \in set
    THEN CHOOSE i \in from..Len(s) :
            s[i] \in set /\ \A j \in from..(i - 1) : s[j] \notin set
    ELSE Len(s) + 1

\* urlparse: the path is what follows the netloc, up to '?' or '#'
UrlPath(netloc, after) ==
    [netloc |-> netloc,
     path |-> SubSeq(after, 1, FirstIn(after, {"?", "#"}, 1) - 1)]

\* urlparse: the netloc is what follows '//', up to '/', '?' or '#'
UrlNetloc(rest, stop) ==
    IF Len(rest) >= 2 /\ rest[1] = "/" /\ rest[2] = "/"
    THEN UrlPath(SubSeq(rest, 3, stop - 1), SubSeq(rest, stop, Len(rest)))
    ELSE UrlPath(<<>>, rest)

\* urlparse: the scheme is what precedes the first ':', if it is a letter
\* followed by letters, digits, '+', '-' and '.'
UrlScheme(url, colon) ==
    IF /\ 1 < colon /\ colon <= Len(url)
       /\ url[1] \in Lower \cup Upper
       /\ \A j \in 1..(colon - 1) :
             url[j] \in Lower \cup Upper \cup Digits \cup {"+", "-", "."}
    THEN SubSeq(url, colon + 1, Len(url))
    ELSE url

\* urlparse: the URL without its scheme
UrlRest(url) == UrlScheme(url, FirstIn(url, {":"}, 1))

\* urlparse: the netloc and the path of the URL without its scheme
UrlSplit(rest) == UrlNetloc(rest, FirstIn(rest, {"/", "?", "#"}, 3))

\* urllib.parse.urlparse(raw_url): [netloc, path]; urlparse(None) has
\* empty components
UrlParse(raw_url) ==
    UrlSplit(UrlRest(IF raw_url = None THEN <<>> ELSE raw_url))

BLUESKY_NETLOC == <<"b", "s", "k", "y", ".", "a", "p", "p">>

ProfilePrefix == <<"/", "p", "r", "o", "f", "i", "l", "e", "/">>

\* profile_path_re.match(path): group(1), or None without a match.  The
\* first alternative [\w\d\.]+ is tried first and takes the longest run of
\* word characters and dots; the match need not reach the end of the path.
ProfilePathMatch(path) ==
    LET n == Len(ProfilePrefix)
        stop == IF \E i \in (n + 1)..Len(path) : path[i] \notin WordChars \cup {"."}
                THEN CHOOSE i \in (n + 1)..Len(path) :
                        /\ path[i] \notin WordChars \cup {"."}
                        /\ \A j \in (n + 1)..(i - 1) : path[j] \in WordChars \cup {"."}
                ELSE Len(path) + 1
    IN  IF Len(path) > n /\ SubSeq(path, 1, n) = ProfilePrefix /\ stop > n + 1
        THEN SubSeq(path, n + 1, stop - 1)
        ELSE None

\* BlueskyUrlFlattener.replaceHref, lines 352-364: a profile URL becomes
\* the handle m; any other text is kept and its byte span remembered
BlueskyReplaced(ctx, text, raw_url, is_bluesky, m) ==
    IF is_bluesky /\ m # None
    THEN [txt |-> <<"@">> \o m, ctx |-> ctx]
    ELSE [txt |-> text,
          ctx |-> [ctx EXCEPT !.fl_urls =
                      Append(@, <<ctx.byte_length,
                                  ctx.byte_length + ByteLen(text), raw_url>>)]]

\* BlueskyUrlFlattener.replaceHref, lines 349-352, on the parsed URL
BlueskyParsed(ctx, text, raw_url, url) ==
    BlueskyReplaced(ctx, text, raw_url, url.netloc = BLUESKY_NETLOC,
                    ProfilePathMatch(url.path))

\* BlueskyUrlFlattener.replaceHref(text, raw_url, ctx): [txt, ctx]
BlueskyReplaceHref(ctx, text, raw_url) ==
    BlueskyParsed(ctx, text, raw_url, UrlParse(raw_url))

\* ctx.url_flattener.replaceHref(text, url, ctx); _NullUrlFlattener
\* returns None
ReplaceHref(ctx, text, url) ==
    IF ctx.url_flattener = "bluesky" THEN BlueskyReplaceHref(ctx, text, url)
    ELSE [txt |-> None, ctx |-> ctx]

\* ctx.url_flattener.measureUrl(url): len(url) in both flatteners
MeasureUrl(ctx, url) == Len(url)

\* _process_end_url, line 329: the new URL, or the URL if there is none
NewUrlOr(r, url) == [txt |-> IF r.txt # None THEN r.txt ELSE url, ctx |-> r.ctx]

\* _process_end_url(url, ctx): [txt, ctx]
ProcessEndUrl(ctx, url) == NewUrlOr(ReplaceHref(ctx, url, url), url)

MastodonProfilePrefix == <<"/", "/", "m", "/", "@">>

\* A silo's SiloProfileUrlHandler.handleUrl(text, url): the replacement
\* text for a link to a profile of the platform `name`, None otherwise.
\* The one concrete handler of the model knows the profiles //m/@<user>
\* and renders them as @<user>.
SiloHandleUrl(name, text, url) ==
    LET n == Len(MastodonProfilePrefix)
    IN  IF name = "mastodon" /\ url # None /\ Len(url) > n
           /\ SubSeq(url, 1, n) = MastodonProfilePrefix
        THEN SubSeq(url, n, Len(url))
        ELSE None

RECURSIVE HandleUrl(_, _, _)
\* ProfileUrlHandler.handleUrl, lines 121-122: the answer of one handler
Handled(handlers, text, url, res) ==
    IF res # None /\ res # <<>>
    THEN [name |-> Head(handlers), txt |-> res]
    ELSE HandleUrl(Tail(handlers), text, url)

\* ProfileUrlHandler.handleUrl(text, url): (name, res) of the first
\* handler that answers; name is "" for the code's (None, None)
HandleUrl(handlers, text, url) ==
    IF handlers = <<>> THEN [name |-> "", txt |-> None]
    ELSE Handled(handlers, text, url,
                 SiloHandleUrl(Head(handlers), text, url))

(***************************************************************************)
(* _do_strip_html and strip_html.  Every operator returns the text it      *)
(* produced and the context as it left it; once ctx.err is set the         *)
(* exception is propagating and nothing more is done.                      *)
(***************************************************************************)
\* the marker '%(url:N)s', one token
Marker(n) == "%(url:" \o ToString(n) \o ")s"

DigitChars == <<"0", "1", "2", "3", "4", "5", "6", "7", "8", "9">>

RECURSIVE DecimalOf(_)
\* '%s' % n for a natural number n
DecimalOf(n) ==
    IF n < 10 THEN <<DigitChars[n + 1]>>
    ELSE Append(DecimalOf(n \div 10), DigitChars[(n % 10) + 1])

RECURSIVE DoStripHtml(_, _, _)
RECURSIVE StripAll(_, _, _)
RECURSIVE StripItems(_, _, _, _, _)

\* the text of a node followed by the text of the nodes after it
Joined(out, rr) == [out |-> out \o rr.out, ctx |-> rr.ctx]

\* the nodes after one that was stripped to r
StripRest(r, nodes, ws) == Joined(r.out, StripAll(nodes, r.ctx, ws))

\* ''.join([_do_strip_html(c, ctx) for c in nodes]); ws: some ancestor is
\* in tags_valid_for_whitespace
StripAll(nodes, ctx, ws) ==
    IF nodes = <<>> \/ ctx.err # "none" THEN [out |-> <<>>, ctx |-> ctx]
    ELSE StripRest(DoStripHtml(Head(nodes), ctx, ws), Tail(nodes), ws)

\* lines 421-423 and 430-431: the list item stripped to r gets its prefix
\* and a newline, and the prefix is counted; ctx.reportAddedText(
\* ol_prefix + 1) adds an int to a str
StripItem(r, i, ordered) ==
    [out |-> (IF ordered THEN DecimalOf(i + 1) \o <<".", " ">>
              ELSE <<"-", " ">>) \o r.out \o <<"\n">>,
     ctx |-> IF r.ctx.err # "none" THEN r.ctx
             ELSE IF ordered THEN Raise(r.ctx, "TypeError")
             ELSE ReportAddedText(r.ctx, 3)]

\* the children after a list item that was rendered as `item`
StripLaterItems(item, nodes, i, ws, ordered) ==
    Joined(item.out, StripItems(nodes, i, item.ctx, ws, ordered))

\* the loops over elem.children of an <ol> (ordered) and of a <ul>; i is
\* enumerate's index of Head(nodes) among all the children
StripItems(nodes, i, ctx, ws, ordered) ==
    IF nodes = <<>> \/ ctx.err # "none" THEN [out |-> <<>>, ctx |-> ctx]
    ELSE IF Head(nodes).tag # "li"
    THEN StripItems(Tail(nodes), i + 1, ctx, ws, ordered)
    ELSE StripLaterItems(
            StripItem(DoStripHtml(Head(nodes), ctx, ws), i, ordered),
            Tail(nodes), i + 1, ws, ordered)

\* the text processText returns, as the text of a node
AsOut(r) == [out |-> r.txt, ctx |-> r.ctx]

\* lines 411-415: the link's contents are stripped again and the marker of
\* the URL follows them
LinkMarked(href, again) ==
    IF again.ctx.err # "none" THEN [out |-> <<>>, ctx |-> again.ctx]
    ELSE [out |-> Append(again.out, Marker(Len(again.ctx.urls))),
          ctx |-> [again.ctx EXCEPT !.urls = Append(@, href)]]

\* lines 398-415: a link whose text is in its URL is replaced by the
\* marker of the URL, or left as it is in ERASE mode
LinkUrl(elem, a_txt, ctx, ws) ==
    IF elem.href = None THEN [out |-> <<>>, ctx |-> Raise(ctx, "TypeError")]
    ELSE IF IsSubstring(a_txt, elem.href)
    THEN IF ctx.url_mode # URLMODE_ERASE
         THEN [out |-> <<Marker(Len(ctx.urls))>>,
               ctx |-> [ctx EXCEPT !.nosp_urls = Append(@, Len(ctx.urls)),
                                   !.urls = Append(@, elem.href)]]
         ELSE [out |-> a_txt, ctx |-> ctx]
    ELSE LinkMarked(elem.href, StripAll(elem.kids, ctx, ws))

\* lines 391-394: what the URL flattener made of the link is used
LinkFlattened(elem, a_txt, flat, ws) ==
    IF flat.txt # None THEN AsOut(ProcessText(flat.ctx, flat.txt, FALSE))
    ELSE LinkUrl(elem, a_txt, flat.ctx, ws)

\* lines 381-391: a profile URL of the silo's own platform is replaced,
\* one of another platform keeps the link's text
LinkProfile(elem, a_txt, ctx, prof, ws) ==
    IF prof.name # ""
    THEN IF ctx.silo_type = prof.name
         THEN AsOut(ProcessText(ctx, prof.txt, FALSE))
         ELSE [out |-> a_txt, ctx |-> ctx]
    ELSE LinkFlattened(elem, a_txt, ReplaceHref(ctx, a_txt, elem.href), ws)

\* the link whose text was found to be first.out
LinkText(elem, first, ws) ==
    IF first.ctx.err # "none" THEN [out |-> <<>>, ctx |-> first.ctx]
    ELSE LinkProfile(elem, first.out, first.ctx,
                     HandleUrl(first.ctx.handlers, first.out, elem.href), ws)

\* lines 371-376: the text under the hyperlink; the .string of an only
\* child that has none is None
LinkOnlyChild(one, ctx) ==
    IF one = None THEN [out |-> <<>>, ctx |-> Raise(ctx, "AttributeError")]
    ELSE [out |-> EscapePercents(one), ctx |-> ctx]

\* _do_strip_html, the branch of a hyperlink
StripLink(elem, ctx, ws) ==
    LinkText(elem,
             IF Len(elem.kids) = 1
             THEN LinkOnlyChild(StringOf(elem.kids[1]), ctx)
             ELSE StripAll(elem.kids, ctx, ws),
             ws)

\* a variant of ParagraphBreak: every paragraph gets a leading newline
ParagraphBreak_Always(ctx) == TRUE

\* _do_strip_html, <p>: a newline goes before the paragraph only if this
\* isn't the first paragraph or piece of content
ParagraphBreak(ctx) == ctx.text_length > 0

\* lines 437-443: the paragraph's children after its newline, if any
StripParagraph(kids, ctx, later) ==
    Joined(IF later THEN <<"\n">> ELSE <<>>,
           StripAll(kids, IF later THEN ReportAddedText(ctx, 1) ELSE ctx, TRUE))

\* line 360: the text processText returns, escaped
Escaped(r) == [out |-> EscapePercents(r.txt), ctx |-> r.ctx]

\* _do_strip_html(elem, ctx): [out, ctx]
DoStripHtml(elem, ctx, ws) ==
    IF ctx.err # "none" THEN [out |-> <<>>, ctx |-> ctx]
    ELSE IF elem.tag = "text"
    THEN IF ~IsSpace(elem.txt) \/ ws
         THEN Escaped(ProcessText(ctx, elem.txt, TRUE))
         ELSE [out |-> <<>>, ctx |-> ctx]
    ELSE IF elem.tag = "a" THEN StripLink(elem, ctx, ws)
    ELSE IF elem.tag \in {"ol", "ul"}
    THEN StripItems(elem.kids, 0, ctx, ws, elem.tag = "ol")
    ELSE IF elem.tag = "p"
    THEN StripParagraph(elem.kids, ctx, ParagraphBreak(ctx))
    ELSE StripAll(elem.kids, ctx, ws \/ elem.tag \in tags_valid_for_whitespace)

RECURSIVE Format(_, _)
\* the first character of the text, formatted, before the rest, formatted
Formatted(first, r) == [err |-> r.err, text |-> first \o r.text]

\* outtxt % urls, urls mapping the key 'url:i' to repl[i + 1]: [err, text].
\* '%%' gives '%' and a marker gives its replacement.  A '%' followed by
\* anything else is a malformed conversion; no text of the model has one,
\* every text being escaped before it is formatted.
Format(out, repl) ==
    IF out = <<>> THEN [err |-> "none", text |-> <<>>]
    ELSE IF Head(out) = "%"
    THEN IF Len(out) >= 2 /\ out[2] = "%"
         THEN Formatted(<<"%">>, Format(SubSeq(out, 3, Len(out)), repl))
         ELSE [err |-> "ValueError", text |-> <<>>]
    ELSE Formatted(
            IF \E i \in 1..Len(repl) : Marker(i - 1) = Head(out)
            THEN repl[CHOOSE i \in 1..Len(repl) : Marker(i - 1) = Head(out)]
            ELSE <<Head(out)>>,
            Format(Tail(out), repl))

RECURSIVE ProcessEndUrls(_, _, _)
\* the URLs after one that was processed to r
LaterEndUrls(r, urls, sep) ==
    Joined(r.txt \o (IF urls = <<>> THEN <<>> ELSE sep),
           ProcessEndUrls(urls, r.ctx, sep))

\* sep.join([_process_end_url(url, ctx) for url in urls]): [out, ctx]
ProcessEndUrls(urls, ctx, sep) ==
    IF urls = <<>> THEN [out |-> <<>>, ctx |-> ctx]
    ELSE LaterEndUrls(ProcessEndUrl(ctx, Head(urls)), Tail(urls), sep)

RECURSIVE MeasureUrls(_, _)
\* the sum of measureUrl(url) over urls
MeasureUrls(ctx, urls) ==
    IF urls = <<>> THEN 0
    ELSE MeasureUrl(ctx, Head(urls)) + MeasureUrls(ctx, Tail(urls))

\* strip_html, lines 310-323: the URLs and their separators are added to
\* the tracked length
CountUrls(ctx) ==
    IF ctx.url_mode = URLMODE_ERASE THEN ctx
    ELSE ReportAddedText(
            ReportAddedText(ctx, MeasureUrls(ctx, ctx.urls)),
            IF ctx.url_mode = URLMODE_INLINE
            THEN Len(ctx.urls) - Len(ctx.nosp_urls)
            ELSE Len(ctx.urls))

\* a variant of UrlsAtEnd: every mode but INLINE appends the URLs
UrlsAtEnd_UnlessInline(ctx) == ctx.urls # <<>> /\ ctx.url_mode # URLMODE_INLINE

\* strip_html: the deferred URLs are appended after the text, joined by
\* spaces
UrlsAtEnd(ctx) == ctx.urls # <<>> /\ ctx.url_mode = URLMODE_LAST

\* strip_html, lines 275-284: what replaces the marker of each URL
UrlRepl(ctx) ==
    [i \in 1..Len(ctx.urls) |->
        IF ctx.limit_reached \/ ctx.url_mode # URLMODE_INLINE THEN <<>>
        ELSE IF \E k \in 1..Len(ctx.nosp_urls) : ctx.nosp_urls[k] = i - 1
        THEN ctx.urls[i]
        ELSE <<" ">> \o ctx.urls[i]]

\* strip_html, lines 295 and 305: the URLs follow the text and are counted
WithEndUrls(outtxt, ends) ==
    [text |-> outtxt \o ends.out, ctx |-> CountUrls(ends.ctx)]

\* strip_html, lines 286-324: the URLs are added after the text
AppendUrls(f, ctx) ==
    IF f.err # "none" THEN [text |-> <<>>, ctx |-> Raise(ctx, f.err)]
    ELSE IF ctx.limit_reached THEN [text |-> f.text, ctx |-> ctx]
    ELSE IF UrlsAtEnd(ctx)
    THEN IF f.text = <<>>
         THEN [text |-> <<>>, ctx |-> Raise(ctx, "IndexError")]
         ELSE WithEndUrls(
                 f.text \o (IF IsSpaceChar(Last(f.text)) THEN <<>> ELSE <<" ">>),
                 ProcessEndUrls(ctx.urls, ctx, <<" ">>))
    ELSE IF ctx.urls # <<>> /\ ctx.url_mode = URLMODE_BOTTOM_LIST
    THEN IF f.text = <<>>
         THEN [text |-> <<>>, ctx |-> Raise(ctx, "IndexError")]
         ELSE WithEndUrls(
                 (IF IsSpaceChar(Last(f.text)) THEN Front(f.text) ELSE f.text)
                 \o <<"\n">>,
                 ProcessEndUrls(ctx.urls, ctx, <<"\n">>))
    ELSE [text |-> f.text, ctx |-> CountUrls(ctx)]

\* strip_html, lines 275-324, on the text r.out of the children
FormatUrls(r) ==
    IF r.ctx.err # "none" THEN [text |-> <<>>, ctx |-> r.ctx]
    ELSE AppendUrls(Format(r.out, UrlRepl(r.ctx)), r.ctx)

\* strip_html(bs_elem, ctx), bs_elem's children being `nodes`: [text, ctx]
StripHtml(nodes, ctx0) == FormatUrls(StripAll(nodes, ctx0, FALSE))

(***************************************************************************)
(* format_entry.  An entry is its url, is_micropost and the elements its   *)
(* htmlFind finds for the classes p-title, p-name and e-content.           *)
(***************************************************************************)
NoElem == [found |-> FALSE, kids |-> <<>>]

Found(nodes) == [found |-> TRUE, kids |-> nodes]

\* get_best_text, lines 231-234: the element found is stripped
BestTextOf(elem, ctx) ==
    IF elem.found THEN StripHtml(elem.kids, ctx)
    ELSE [text |-> None, ctx |-> ctx]

\* get_best_text(entry, ctx): [text, ctx]; the text is None when the entry
\* has none of the three elements
GetBestText(entry, ctx) ==
    BestTextOf(IF entry.p_title.found THEN entry.p_title
               ELSE IF entry.p_name.found THEN entry.p_name
               ELSE entry.e_content,
               ctx)

\* get_card_info(entry, card_props, ctx) on the page the fetch of
\* entry.url gives: [found, text, image, ctx].  urlopen raises when the
\* page cannot be had, as it does for an entry that has no url.
GetCardInfo(entry, page, ctx) ==
    IF ~page.ok \/ entry.url = None \/ entry.url = <<>>
    THEN [found |-> FALSE, text |-> <<>>, image |-> None, ctx |-> Raise(ctx, "URLError")]
    ELSE IF page.desc # None /\ page.desc # <<>>
    THEN [found |-> TRUE, text |-> page.desc, image |-> page.image,
          ctx |-> ReportSetText(ctx, Len(page.desc), ByteLen(page.desc))]
    ELSE [found |-> FALSE, text |-> <<>>, image |-> None, ctx |-> ctx]

\* the context format_entry builds for its first pass (lines 22-30)
SiloContext(silo) ==
    [NewContext EXCEPT !.silo_type = silo.silo_type,
                       !.url_mode = silo.url_mode,
                       !.url_flattener = silo.url_flattener,
                       !.handlers = silo.handlers]

\* a variant of DoAddUrl: 'auto' adds the URL to microposts too
DoAddUrl_AnyKind(add_url, is_micropost) == add_url \in {"true", "auto"}

\* format_entry, lines 51-52: the URL is added if we were told to, or if
\* we are dealing with an article
DoAddUrl(add_url, is_micropost) ==
    add_url = "true" \/ (add_url = "auto" /\ ~is_micropost)

\* text[:n]
SliceTo(text, n) ==
    IF n >= 0 THEN SubSeq(text, 1, IF n < Len(text) THEN n ELSE Len(text))
    ELSE SubSeq(text, 1, Len(text) + n)

\* format_entry, lines 73-77: the context of the second pass
RestartContext(args, limit) ==
    [NewContext EXCEPT !.limit = limit, !.url_flattener = args.silo.url_flattener]

\* format_entry raises
Failed(ex, ctx) ==
    [err |-> ex, text |-> <<>>, image |-> None, is_from |-> "",
     ctx |-> ctx, first_length |-> 0, url_added |-> FALSE,
     restarted |-> FALSE, sliced |-> FALSE]

\* entry.url is not None nor ''
HasUrl(entry) == entry.url # None /\ entry.url # <<>>

\* format_entry, lines 89-93: the URL, as its flattener leaves it, is
\* counted and added after a space
WithUrl(card, endurl) ==
    [card EXCEPT !.text = @ \o <<" ">> \o endurl.txt,
                 !.ctx = ReportAddedText(endurl.ctx,
                                         MeasureUrl(endurl.ctx, endurl.txt)),
                 !.url_added = TRUE]

\* format_entry, lines 88-94
AddUrl(entry, card, do_add_url) ==
    IF card.err # "none" THEN card
    ELSE IF do_add_url /\ HasUrl(entry)
    THEN WithUrl(card, ProcessEndUrl(ReportAddedText(card.ctx, 1), entry.url))
    ELSE card

\* format_entry, line 78: the text of the second pass is the card's
Restarted(card, again) ==
    IF again.ctx.err # "none" THEN Failed(again.ctx.err, again.ctx)
    ELSE [card EXCEPT !.text = again.text, !.ctx = again.ctx,
                      !.restarted = TRUE]

\* format_entry, lines 60-82: a text longer than the limit is stripped
\* again under the limit, or cut if it is a card's blurb
Shorten(entry, args, card, limit, forced) ==
    IF args.limit = 0 \/ card.ctx.text_length <= limit THEN card
    ELSE IF card.is_from = "best_text"
    THEN Restarted(card,
                   GetBestText(entry,
                       RestartContext(args,
                           IF forced
                           THEN limit - (1 + MeasureUrl(card.ctx, entry.url))
                           ELSE limit)))
    ELSE [card EXCEPT
            !.text = SliceTo(@, IF forced
                                THEN limit - (1 + MeasureUrl(card.ctx, entry.url))
                                ELSE limit),
            !.sliced = TRUE]

\* format_entry, lines 51-82, with the limit as line 58 leaves it
Limited(entry, args, card, limit) ==
    LET do_add_url0 == DoAddUrl(args.add_url, entry.is_micropost)
        shortened == args.limit # 0 /\ card.ctx.text_length > limit
        forced == /\ shortened /\ ~do_add_url0
                  /\ args.add_url = "auto" /\ HasUrl(entry)
    IN  AddUrl(entry, Shorten(entry, args, card, limit, forced),
               do_add_url0 \/ forced)

\* format_entry, lines 46-58, on the card found
Carded(entry, args, card) ==
    Limited(entry, args, card,
            IF DoAddUrl(args.add_url, entry.is_micropost) /\ HasUrl(entry)
            THEN args.limit - (1 + MeasureUrl(card.ctx, entry.url))
            ELSE args.limit)

\* format_entry, lines 41-47: the card of the best text
BestTextCard(entry, args, best) ==
    IF best.ctx.err # "none" THEN Failed(best.ctx.err, best.ctx)
    ELSE IF best.text = None \/ best.text = <<>>
    THEN Failed("Exception", best.ctx)
    ELSE Carded(entry, args,
                [err |-> "none", text |-> best.text, image |-> None,
                 is_from |-> "best_text", ctx |-> best.ctx,
                 first_length |-> best.ctx.text_length, url_added |-> FALSE,
                 restarted |-> FALSE, sliced |-> FALSE])

\* format_entry, lines 36-44: the card of the page's blurb, if it has one
InfoCard(entry, args, info) ==
    IF info.ctx.err # "none" THEN Failed(info.ctx.err, info.ctx)
    ELSE IF info.found
    THEN Carded(entry, args,
                [err |-> "none", text |-> info.text, image |-> info.image,
                 is_from |-> "card", ctx |-> info.ctx,
                 first_length |-> info.ctx.text_length, url_added |-> FALSE,
                 restarted |-> FALSE, sliced |-> FALSE])
    ELSE BestTextCard(entry, args, GetBestText(entry, info.ctx))

\* format_entry(entry, silo_type, limit, card_props, add_url,
\* url_flattener, profile_url_handlers, url_mode) with the page a fetch of
\* entry.url gives.  args.limit = 0 stands for no limit, args.add_url is
\* "true", "false" or "auto".  The result: err, the exception raised or
\* "none"; text, image, is_from, the card; ctx, the context at the end;
\* first_length, the tracked length after the first pass; url_added,
\* restarted and sliced, what the call did.
FormatEntry(entry, args, page) ==
    IF args.card_props /\ ~entry.is_micropost
    THEN InfoCard(entry, args, GetCardInfo(entry, page, SiloContext(args.silo)))
    ELSE BestTextCard(entry, args, GetBestText(entry, SiloContext(args.silo)))

(***************************************************************************)
(* shorten_text.                                                           *)
(***************************************************************************)
\* re_sentence_end matches at s[i]: [\w\]\)\"\'\.]\.\s or [\?\!]\s; the
\* length of the match, 0 when there is none
SentenceEndAt(s, i) ==
    IF /\ i + 2 <= Len(s)
       /\ s[i] \in WordChars \cup {"]", ")", "\"", "'", "."}
       /\ s[i + 1] = "."
       /\ IsSpaceChar(s[i + 2])
    THEN 3
    ELSE IF i + 1 <= Len(s) /\ s[i] \in {"?", "!"} /\ IsSpaceChar(s[i + 1])
    THEN 2
    ELSE 0

\* re_sentence_end.search(txt): the end() of the leftmost match, 0 for None
SentenceEnd(s) ==
    IF \E i \in 1..Len(s) : SentenceEndAt(s, i) > 0
    THEN LET i == CHOOSE i \in 1..Len(s) :
                    /\ SentenceEndAt(s, i) > 0
                    /\ \A j \in 1..(i - 1) : SentenceEndAt(s, j) = 0
         IN  i - 1 + SentenceEndAt(s, i)
    ELSE 0

\* shorten_text, lines 459-461
Shorter(shorter) ==
    [err |-> shorter.err, text |-> shorter.text,
     shortened |-> shorter.err = "none"]

\* shorten_text(txt, limit): [err, text, shortened].  With a match m the
\* test `m.end <= (limit + 1)` compares the bound method m.end, not the
\* number m.end(), with an int: a TypeError.
ShortenText(txt, limit) ==
    IF Len(txt) <= limit
    THEN [err |-> "none", text |-> txt, shortened |-> FALSE]
    ELSE IF SentenceEnd(txt) # 0
    THEN [err |-> "TypeError", text |-> <<>>, shortened |-> FALSE]
    ELSE Shorter(TextwrapShorten(txt, limit))

(***************************************************************************)
(* The inputs of the model: URLs, top-level nodes and documents.           *)
(***************************************************************************)
\* 'h://x.co'
UrlX == <<"h", ":", "/", "/", "x", ".", "c", "o">>

\* 'https://bsky.app/profile/al.t'
UrlBskyProfile ==
    <<"h", "t", "t", "p", "s", ":", "/", "/">> \o BLUESKY_NETLOC \o ProfilePrefix
    \o <<"a", "l", ".", "t">>

\* '//m/@al'
UrlMastodonProfile == MastodonProfilePrefix \o <<"a", "l">>

Li(kids) == Elem("li", kids)

P(kids) == Elem("p", kids)

Blocks ==
    { Txt(<<"a", "b", " ", "c", "d">>),
      Txt(<<"a", "%", " ", "é", "f", " ", "g", "h", "i">>),
      Txt(<<" ">>),
      P(<<Txt(<<"a", "b">>)>>),
      P(<<Txt(<<"c", " ", "d">>)>>),
      P(<<>>),
      P(<<Txt(<<" ">>)>>),
      \* a bare link: its text is a substring of its href
      Link(UrlX, <<Txt(<<"x", ".", "c", "o">>)>>),
      P(<<Link(UrlX, <<Txt(<<"x", ".", "c", "o">>)>>)>>),
      \* a link whose text is itself the URL
      Link(UrlX, <<Txt(UrlX)>>),
      \* links with words for text, of one child and of two
      Link(UrlX, <<Txt(<<"g", "o">>)>>),
      Link(UrlX, <<Txt(<<"g">>), Elem("b", <<Txt(<<"o">>)>>)>>),
      \* a link whose text holds a '%'
      Link(UrlX, <<Txt(<<"5", "%">>)>>),
      \* profile links
      Link(UrlBskyProfile, <<Txt(<<"a", "l">>)>>),
      Link(UrlMastodonProfile, <<Txt(<<"a", "l">>)>>),
      Elem("ul", <<Li(<<Txt(<<"a", "b">>)>>), Txt(<<" ">>), Li(<<Txt(<<"c">>)>>)>>),
      Elem("ol", <<Li(<<Txt(<<"a">>)>>), Li(<<Txt(<<"b">>)>>), Li(<<Txt(<<"c">>)>>)>>),
      Elem("ol", <<Txt(<<" ">>), Li(<<Txt(<<"a">>)>>), Txt(<<" ">>), Li(<<Txt(<<"b">>)>>)>>) }

\* the documents: the sequences of at most MaxBlocks top-level nodes
Docs == UNION {[1..n -> Blocks] : n \in 0..MaxBlocks}

(***************************************************************************)
(* The callers' settings of a stripping pass.                              *)
(***************************************************************************)
Silos ==
    {[silo_type |-> "print", url_mode |-> m, url_flattener |-> "null",
      handlers |-> <<>>] : m \in UrlModes}
    \cup {[silo_type |-> "bluesky", url_mode |-> URLMODE_ERASE,
           url_flattener |-> "bluesky", handlers |-> <<"mastodon">>],
          [silo_type |-> "mastodon", url_mode |-> URLMODE_LAST,
           url_flattener |-> "null", handlers |-> <<"mastodon">>]}

(***************************************************************************)
(* State.                                                                  *)
(***************************************************************************)
VARIABLES
    s_pc,      \* strip_html: "call", "returned" or "raised"
    s_doc,     \* strip_html: the children of bs_elem
    s_ctx,     \* strip_html: the context, as given and then as left
    s_text,    \* strip_html: the text returned
    f_pc,      \* format_entry: "call", "returned" or "raised"
    f_entry,   \* format_entry: the entry
    f_args,    \* format_entry: the keyword arguments
    f_res,     \* format_entry: the card returned and what the call did
    t_pc,      \* shorten_text: "call", "returned" or "raised"
    t_txt,     \* shorten_text: txt
    t_limit,   \* shorten_text: limit
    t_res,     \* shorten_text: the pair returned, or the exception
    m_pc,      \* upload_silo_media: where the call is
    m_card,    \* upload_silo_media: card.image and card.entry's media property
    m_tmpdir,  \* upload_silo_media: the temporary directory exists
    m_files,   \* upload_silo_media: the files in the temporary directory
    m_downloads, \* upload_silo_media: the URLs urlretrieve was given
    m_calls,   \* upload_silo_media: the calls made to the callback
    m_read,    \* upload_silo_media: the media property was read
    m_idx,     \* upload_silo_media: the media entry the loop is at
    m_ids,     \* upload_silo_media: media_ids, then the value returned
    m_err,     \* upload_silo_media: the exception raised
    e_pc,      \* _makeUrlEmbed: where the call is, and how postEntry ended
    e_attempts, \* _makeUrlEmbed: attempts
    e_log,     \* _makeUrlEmbed: what each fetch met
    e_sleeps,  \* _makeUrlEmbed: the time.sleep calls made
    e_html,    \* _makeUrlEmbed: html_raw and html_encoding
    e_embed,   \* _makeUrlEmbed: the embed returned
    e_err,     \* _makeUrlEmbed: the exception raised
    h_pc,      \* replaceHref: "call" or "returned"
    h_text,    \* replaceHref: text
    h_raw_url, \* replaceHref: raw_url
    h_ctx,     \* replaceHref: ctx, with the flattener's urls before the call
    h_res,     \* replaceHref: the value returned and the flattener's urls
    l_pc,      \* load_silos: "call", "returned" or "raised"
    l_config,  \* load_silos: the sections of config, in order
    l_res      \* load_silos: the silos returned, or the exception

vars == <<s_pc, s_doc, s_ctx, s_text, f_pc, f_entry, f_args, f_res,
          t_pc, t_txt, t_limit, t_res,
          m_pc, m_card, m_tmpdir, m_files, m_downloads, m_calls, m_read,
          m_idx, m_ids, m_err,
          e_pc, e_attempts, e_log, e_sleeps, e_html, e_embed, e_err,
          h_pc, h_text, h_raw_url, h_ctx, h_res, l_pc, l_config, l_res>>

m_vars == <<m_pc, m_card, m_tmpdir, m_files, m_downloads, m_calls, m_read,
            m_idx, m_ids, m_err>>

e_vars == <<e_pc, e_attempts, e_log, e_sleeps, e_html, e_embed, e_err>>

h_vars == <<h_pc, h_text, h_raw_url, h_ctx, h_res>>

l_vars == <<l_pc, l_config, l_res>>

t_vars == <<t_pc, t_txt, t_limit, t_res>>

s_vars == <<s_pc, s_doc, s_ctx, s_text>>

f_vars == <<f_pc, f_entry, f_args, f_res>>

\* strip_html is not in use
IdleStrip == s_pc = "idle" /\ s_doc = <<>> /\ s_ctx = NewContext /\ s_text = <<>>

\* format_entry is not in use
IdleFormat == f_pc = "idle" /\ f_entry = <<>> /\ f_args = <<>> /\ f_res = <<>>

\* shorten_text is not in use
IdleShorten == t_pc = "idle" /\ t_txt = <<>> /\ t_limit = 0 /\ t_res = <<>>

\* upload_silo_media is not in use
IdleMedia ==
    /\ m_pc = "idle" /\ m_card = <<>> /\ m_tmpdir = FALSE /\ m_files = {}
    /\ m_downloads = <<>> /\ m_calls = <<>> /\ m_read = FALSE /\ m_idx = 0
    /\ m_ids = None /\ m_err = "none"

\* _makeUrlEmbed is not in use
IdleEmbed ==
    /\ e_pc = "idle" /\ e_attempts = 0 /\ e_log = <<>> /\ e_sleeps = <<>>
    /\ e_html = <<>> /\ e_embed = <<>> /\ e_err = "none"

\* replaceHref is not in use
IdleHref ==
    /\ h_pc = "idle" /\ h_text = <<>> /\ h_raw_url = <<>>
    /\ h_ctx = NewContext /\ h_res = <<>>

\* load_silos is not in use
IdleLoad == l_pc = "idle" /\ l_config = <<>> /\ l_res = <<>>

(***************************************************************************)
(* strip_html called on a document with a caller's context.                *)
(***************************************************************************)
InitStrip ==
    /\ s_pc = "call"
    /\ s_doc \in Docs
    /\ \E silo \in Silos, limit \in {-1} \cup 1..MaxLimit :
          s_ctx = [SiloContext(silo) EXCEPT !.limit = limit]
    /\ s_text = <<>>
    /\ IdleFormat /\ IdleShorten /\ IdleMedia /\ IdleEmbed
    /\ IdleHref /\ IdleLoad

\* strip_html returns a text or raises; the context is left as the pass
\* or the exception left it
StripHtmlCall ==
    /\ s_pc = "call"
    /\ LET r == StripHtml(s_doc, s_ctx)
       IN  /\ s_text' = r.text
           /\ s_ctx' = r.ctx
           /\ s_pc' = IF r.ctx.err = "none" THEN "returned" ELSE "raised"
    /\ UNCHANGED <<s_doc, f_vars, t_vars, m_vars, e_vars,
                   h_vars, l_vars>>

NextStrip == StripHtmlCall

SpecStrip == InitStrip /\ [][NextStrip]_vars

(***************************************************************************)
(* format_entry called on an entry.                                        *)
(***************************************************************************)
\* 'h://e', the entry's permalink
UrlE == <<"h", ":", "/", "/", "e">>

EntryBlocks ==
    { Txt(<<"a", "b", " ", "c", "d">>),
      Txt(<<"a", "%", " ", "é", "f", " ", "g", "h", "i">>),
      P(<<Txt(<<"a", "b">>)>>),
      Link(UrlX, <<Txt(<<"x", ".", "c", "o">>)>>),
      Link(UrlX, <<Txt(<<"g", "o">>)>>),
      Elem("div", <<Txt(<<"é", "t", "é", " ">>), Link(UrlX, <<Txt(<<"g", "o">>)>>),
                    Txt(<<" ", "c", "d">>)>>),
      Link(UrlMastodonProfile, <<Txt(<<"a", "l">>)>>),
      Elem("ul", <<Li(<<Txt(<<"a", "b">>)>>), Li(<<Txt(<<"c">>)>>)>>) }

\* the entries' contents: the sequences of at most MaxEntryBlocks nodes
EntryDocs == UNION {[1..n -> EntryBlocks] : n \in 0..MaxEntryBlocks}

Entries ==
    {[url |-> u, is_micropost |-> m, p_title |-> NoElem, p_name |-> NoElem,
      e_content |-> Found(d)] : u \in {None, UrlE}, m \in BOOLEAN, d \in EntryDocs}
    \cup {[url |-> UrlE, is_micropost |-> FALSE, p_title |-> t, p_name |-> n,
           e_content |-> c] :
              t \in {NoElem, Found(<<Txt(<<"t", "i">>)>>)},
              n \in {NoElem, Found(<<Txt(<<"n", "a", " ", "m", "e">>)>>)},
              c \in {NoElem, Found(<<Txt(<<"a", "b", " ", "c", "d">>)>>)}}

\* what a fetch of the entry's page gives get_card_info: a failure, a page
\* without a description, a page with one
NoPage == [ok |-> FALSE, desc |-> None, image |-> None]

Pages ==
    {NoPage,
     [ok |-> TRUE, desc |-> None, image |-> None],
     [ok |-> TRUE, desc |-> <<"d", "e", "s", "c", " ", "é", "!">>, image |-> UrlX]}

\* the keyword arguments, with the page the entry's URL serves when
\* card_props asks for it
FormatArgs ==
    {[silo |-> s, limit |-> l, add_url |-> a, card_props |-> c, page |-> g] :
        s \in Silos, l \in 0..MaxLimit, a \in {"true", "false", "auto"},
        c \in BOOLEAN, g \in Pages}

InitFormat ==
    /\ f_pc = "call"
    /\ f_entry \in Entries
    /\ f_args \in {a \in FormatArgs : ~a.card_props => a.page = NoPage}
    /\ f_res = <<>>
    /\ IdleStrip /\ IdleShorten /\ IdleMedia /\ IdleEmbed
    /\ IdleHref /\ IdleLoad

\* format_entry returns a card or raises
FormatEntryCall ==
    /\ f_pc = "call"
    /\ LET r == FormatEntry(f_entry, f_args, f_args.page)
       IN  /\ f_res' = r
           /\ f_pc' = IF r.err = "none" THEN "returned" ELSE "raised"
    /\ UNCHANGED <<f_entry, f_args, s_vars, t_vars, m_vars, e_vars,
                   h_vars, l_vars>>

NextFormat == FormatEntryCall

SpecFormat == InitFormat /\ [][NextFormat]_vars

(***************************************************************************)
(* shorten_text called on a text and a limit.                              *)
(***************************************************************************)
\* 'This is a sentence. And more.'
TextSentence ==
    <<"T", "h", "i", "s", " ", "i", "s", " ", "a", " ", "s", "e", "n", "t",
      "e", "n", "c", "e", ".", " ", "A", "n", "d", " ", "m", "o", "r", "e", ".">>

\* 'short text'
TextShort == <<"s", "h", "o", "r", "t", " ", "t", "e", "x", "t">>

\* the texts of at most MaxTextLen characters over a small alphabet, and
\* the two above
Texts ==
    UNION {[1..n -> {"a", ".", " ", "?"}] : n \in 0..MaxTextLen}
    \cup {TextSentence, TextShort}

InitShorten ==
    /\ t_pc = "call"
    /\ t_txt \in Texts
    /\ t_limit \in 0..MaxLimit \cup {20, 50}
    /\ t_res = <<>>
    /\ IdleStrip /\ IdleFormat /\ IdleMedia /\ IdleEmbed
    /\ IdleHref /\ IdleLoad

\* shorten_text returns a pair or raises
ShortenTextCall ==
    /\ t_pc = "call"
    /\ LET r == ShortenText(t_txt, t_limit)
       IN  /\ t_res' = r
           /\ t_pc' = IF r.err = "none" THEN "returned" ELSE "raised"
    /\ UNCHANGED <<t_txt, t_limit, s_vars, f_vars, m_vars, e_vars,
                   h_vars, l_vars>>

NextShorten == ShortenTextCall

SpecShorten == InitShorten /\ [][NextShorten]_vars

(***************************************************************************)
(* silos/base.py: upload_silo_media, called on a card with a callback.     *)
(* The download and the callback are the environment's: a download fails   *)
(* before or after its file is created, or succeeds; the callback returns  *)
(* a media handle, returns None, or raises.  The MIME type guessed for the *)
(* callback is not modelled.                                               *)
(***************************************************************************)
\* the media property holds at most MaxMedia entries
MaxMedia == 2

UrlImage == "h://i.jpg"

MediaUrls == {"h://a.jpg", "h://b.png"}

\* 'alt'
AltText == <<"a", "l", "t">>

\* the entries of a media property: a URL, a dictionary with 'value' and
\* 'alt', or a dictionary without 'alt'
MediaEntries ==
    {[type |-> "str", value |-> u, has_alt |-> FALSE] : u \in MediaUrls}
    \cup {[type |-> "dict", value |-> u, has_alt |-> a] :
             u \in {"h://a.jpg"}, a \in BOOLEAN}

\* the cards: card.image is a URL or nothing ('' stands for None as well,
\* both are false), the entry's media property is a list
MediaCards ==
    {[image |-> i, media |-> m] :
        i \in {"", UrlImage},
        m \in UNION {[1..n -> MediaEntries] : n \in 0..MaxMedia}}

\* what a download and the callback after it do
UploadOutcomes ==
    {"not_downloaded", "short_download", "mid", "None", "callback_raised"}

\* the handle the silo gives for an uploaded URL
MediaId(url) == "id:" \o url

\* _img_url_and_alt: the URL and the description of a media entry
ImgUrlAndAlt(media_entry) ==
    IF media_entry.type = "str"
    THEN [err |-> "none", url |-> media_entry.value, desc |-> None]
    ELSE IF media_entry.has_alt
    THEN [err |-> "none", url |-> media_entry.value, desc |-> AltText]
    ELSE [err |-> "KeyError", url |-> "", desc |-> None]

\* _do_upload_silo_media: the URL is downloaded to a new file of tmpdir
\* and the callback is called on the file; an exception of either goes to
\* the caller
DoUploadSiloMedia(files, downloads, calls, url, desc, outcome) ==
    LET tmpfile == Len(downloads) + 1
        fetched == outcome \notin {"not_downloaded", "short_download"}
        ret == IF outcome = "mid" THEN MediaId(url) ELSE "None"
    IN  [err |-> CASE outcome \in {"not_downloaded", "short_download"}
                        -> "URLError"
                   [] outcome = "callback_raised" -> "Exception"
                   [] OTHER -> "none",
         mid |-> ret,
         files |-> IF outcome = "not_downloaded" THEN files
                   ELSE files \cup {tmpfile},
         downloads |-> Append(downloads, url),
         calls |-> IF fetched
                   THEN Append(calls, [tmpfile |-> tmpfile, url |-> url,
                                       desc |-> desc, ret |-> outcome])
                   ELSE calls]

\* a variant of ForcedImageReturns: the forced image never ends the call
ForcedImageReturns_Never(mid) == FALSE

\* upload_silo_media, line 171: the forced image's handle is the result
ForcedImageReturns(mid) == mid # "None"

\* a variant of ExitTmpDir: the directory and its files are left behind
ExitTmpDir_Leaves(files) == [tmpdir |-> TRUE, files |-> files]

\* the with statement's exit, by return or by exception:
\* TemporaryDirectory removes the directory and all that is in it
ExitTmpDir(files) == [tmpdir |-> FALSE, files |-> {}]

InitMedia ==
    /\ m_pc = "call"
    /\ m_card \in MediaCards
    /\ m_tmpdir = FALSE /\ m_files = {}
    /\ m_downloads = <<>> /\ m_calls = <<>> /\ m_read = FALSE /\ m_idx = 0
    /\ m_ids = None /\ m_err = "none"
    /\ IdleStrip /\ IdleFormat /\ IdleShorten /\ IdleEmbed
    /\ IdleHref /\ IdleLoad

\* the with statement is entered: the temporary directory is made
EnterTmpDir ==
    /\ m_pc = "call"
    /\ m_pc' = "image"
    /\ m_tmpdir' = TRUE
    /\ UNCHANGED <<m_card, m_files, m_downloads, m_calls, m_read, m_idx,
                   m_ids, m_err, s_vars, f_vars, t_vars, e_vars,
                   h_vars, l_vars>>

\* lines 168-172: the forced image, if any, is uploaded, and its handle
\* is returned
UploadForcedImage ==
    /\ m_pc = "image"
    /\ IF m_card.image = ""
       THEN /\ m_pc' = "property"
            /\ UNCHANGED <<m_tmpdir, m_files, m_downloads, m_calls, m_ids,
                           m_err>>
       ELSE \E outcome \in UploadOutcomes :
            LET r == DoUploadSiloMedia(m_files, m_downloads, m_calls,
                                       m_card.image, None, outcome)
                raised == r.err # "none"
                done == raised \/ ForcedImageReturns(r.mid)
            IN  /\ m_downloads' = r.downloads
                /\ m_calls' = r.calls
                /\ m_err' = r.err
                /\ m_pc' = IF raised THEN "raised"
                           ELSE IF done THEN "returned" ELSE "property"
                /\ m_ids' = IF ~raised /\ done THEN <<r.mid>> ELSE m_ids
                /\ m_files' = IF done THEN ExitTmpDir(r.files).files
                              ELSE r.files
                /\ m_tmpdir' = IF done THEN ExitTmpDir(r.files).tmpdir
                               ELSE m_tmpdir
    /\ UNCHANGED <<m_card, m_read, m_idx, s_vars, f_vars, t_vars, e_vars,
                   h_vars, l_vars>>

\* lines 175-178: the media property is read; with no media the call
\* returns None
ReadMediaProperty ==
    /\ m_pc = "property"
    /\ m_read' = TRUE
    /\ IF m_card.media = <<>>
       THEN /\ m_pc' = "returned"
            /\ m_ids' = None
            /\ m_files' = ExitTmpDir(m_files).files
            /\ m_tmpdir' = ExitTmpDir(m_files).tmpdir
            /\ UNCHANGED m_idx
       ELSE /\ m_pc' = "item"
            /\ m_ids' = <<>>
            /\ m_idx' = 1
            /\ UNCHANGED <<m_files, m_tmpdir>>
    /\ UNCHANGED <<m_card, m_downloads, m_calls, m_err,
                   s_vars, f_vars, t_vars, e_vars,
                   h_vars, l_vars>>

\* lines 179-183: one turn of the loop over the media entries; the call
\* returns media_ids after the last one
UploadMediaItem ==
    /\ m_pc = "item"
    /\ \E outcome \in UploadOutcomes :
       LET ua == ImgUrlAndAlt(m_card.media[m_idx])
           r == IF ua.err # "none"
                THEN [err |-> ua.err, mid |-> "None", files |-> m_files,
                      downloads |-> m_downloads, calls |-> m_calls]
                ELSE DoUploadSiloMedia(m_files, m_downloads, m_calls,
                                       ua.url, ua.desc, outcome)
           raised == r.err # "none"
           done == raised \/ m_idx = Len(m_card.media)
       IN  /\ m_downloads' = r.downloads
           /\ m_calls' = r.calls
           /\ m_err' = r.err
           /\ m_ids' = IF ~raised /\ r.mid # "None"
                       THEN Append(m_ids, r.mid) ELSE m_ids
           /\ m_idx' = IF done THEN m_idx ELSE m_idx + 1
           /\ m_pc' = IF raised THEN "raised"
                      ELSE IF done THEN "returned" ELSE "item"
           /\ m_files' = IF done THEN ExitTmpDir(r.files).files ELSE r.files
           /\ m_tmpdir' = IF done THEN ExitTmpDir(r.files).tmpdir
                          ELSE m_tmpdir
    /\ UNCHANGED <<m_card, m_read, s_vars, f_vars, t_vars, e_vars,
                   h_vars, l_vars>>

NextMedia ==
    \/ EnterTmpDir
    \/ UploadForcedImage
    \/ ReadMediaProperty
    \/ UploadMediaItem

SpecMedia == InitMedia /\ [][NextMedia]_vars

(***************************************************************************)
(* silos/bluesky.py: _makeUrlEmbed, called on a URL.  What each fetch      *)
(* meets is the environment's: a page, or a failure with or without        *)
(* headers, with or without a Retry-After header.                          *)
(***************************************************************************)
max_attempts == 3

\* the longest wait _makeUrlEmbed accepts, in seconds
MaxWait == 60

RECURSIVE NatOf(_)
\* the number a string of digits spells
NatOf(digits) ==
    IF digits = <<>> THEN 0
    ELSE 10 * NatOf(Front(digits))
         + (CHOOSE d \in 0..9 : DigitChars[d + 1] = Last(digits))

\* float(s), as far as int() needs it: the sign and the integer part of a
\* decimal, inf, nan, or ValueError
FloatOf(s) ==
    LET signed == s # <<>> /\ s[1] \in {"-", "+"}
        neg == signed /\ s[1] = "-"
        body == IF signed THEN Tail(s) ELSE s
        dot == IF \E i \in 1..Len(body) : body[i] = "."
               THEN CHOOSE i \in 1..Len(body) :
                       body[i] = "." /\ \A j \in 1..(i - 1) : body[j] # "."
               ELSE Len(body) + 1
        ip == SubSeq(body, 1, dot - 1)
        fp == SubSeq(body, dot + 1, Len(body))
        digits(t) == \A i \in 1..Len(t) : t[i] \in Digits
    IN  IF body \in {<<"i", "n", "f">>, <<"n", "a", "n">>}
        THEN [kind |-> IF body[1] = "i" THEN "inf" ELSE "nan",
              neg |-> neg, int |-> 0]
        ELSE IF digits(ip) /\ digits(fp) /\ Len(ip) + Len(fp) > 0
        THEN [kind |-> "finite", neg |-> neg, int |-> NatOf(ip)]
        ELSE [kind |-> "ValueError", neg |-> neg, int |-> 0]

\* int(float(s)): truncation toward zero; int(inf) is an OverflowError and
\* int(nan) a ValueError
IntOfFloat(s) ==
    LET f == FloatOf(s)
    IN  CASE f.kind = "finite" ->
               [err |-> "none", int |-> IF f.neg THEN 0 - f.int ELSE f.int]
          [] f.kind = "inf" -> [err |-> "OverflowError", int |-> 0]
          [] OTHER -> [err |-> "ValueError", int |-> 0]

\* lines 208-211: the time to wait, -1 if the header can't be read as a
\* number
WaitTime(retry_after) ==
    LET n == IntOfFloat(retry_after)
    IN  CASE n.err = "none" -> [err |-> "none", wait_time |-> n.int + 1]
          [] n.err = "ValueError" -> [err |-> "none", wait_time |-> -1]
          [] OTHER -> [err |-> n.err, wait_time |-> 0]

\* a variant of RetryStep: every failed fetch is tried again at once
RetryStep_Always(ex) == [do |-> "sleep", wait_time |-> 0, err |-> "none"]

\* lines 197-216, the except clause: abort ("break"), wait and retry
\* ("sleep"), or fail with the exception the clause itself raises
RetryStep(ex) ==
    IF ~ex.has_headers THEN [do |-> "break", wait_time |-> 0, err |-> "none"]
    ELSE IF ex.retry_after \in {None, <<>>}
    THEN [do |-> "break", wait_time |-> 0, err |-> "none"]
    ELSE LET w == WaitTime(ex.retry_after)
         IN  IF w.err # "none"
             THEN [do |-> "raise", wait_time |-> 0, err |-> w.err]
             ELSE IF w.wait_time < 0 \/ w.wait_time > MaxWait
             THEN [do |-> "break", wait_time |-> w.wait_time, err |-> "none"]
             ELSE [do |-> "sleep", wait_time |-> w.wait_time, err |-> "none"]

\* the pages a fetch may get: the Content-Encoding, whether the body is
\* what the encoding says, the meta tags' contents ('' if there is no such
\* tag), whether there is a title element, and its string ('' for None)
NoTags ==
    [encoding |-> "", valid |-> TRUE, og_title |-> "", twitter_title |-> "",
     has_title |-> FALSE, title |-> "", og_description |-> "",
     twitter_description |-> "", description |-> "", og_image |-> "",
     twitter_image |-> "", thumbnail |-> ""]

EmbedPages ==
    {[NoTags EXCEPT !.og_title = "OG", !.og_description = "OGD",
                    !.og_image = "h://og.png", !.has_title = TRUE,
                    !.title = "T"],
     [NoTags EXCEPT !.has_title = TRUE, !.title = "T"],
     [NoTags EXCEPT !.has_title = TRUE, !.title = "T",
                    !.description = "D", !.thumbnail = "h://th.png"],
     [NoTags EXCEPT !.has_title = TRUE],
     NoTags,
     [NoTags EXCEPT !.encoding = "gzip", !.twitter_title = "TW",
                    !.twitter_description = "TWD",
                    !.twitter_image = "h://tw.png"],
     [NoTags EXCEPT !.encoding = "gzip", !.valid = FALSE],
     [NoTags EXCEPT !.encoding = "deflate", !.valid = FALSE]}

\* the values of a Retry-After header
RetryAfters ==
    {<<"2">>, <<"0">>, <<"5", "9">>, <<"5", "9", ".", "9">>, <<"6", "0">>,
     <<"1", "2", "0">>, <<"-", "1">>, <<"-", "2">>, <<"-", "0", ".", "5">>,
     <<"a", "b", "c">>, <<"i", "n", "f">>, <<"n", "a", "n">>, <<>>}

\* what a fetch may meet
FetchOutcomes ==
    {[kind |-> "ok", has_headers |-> TRUE, retry_after |-> None,
      page |-> p] : p \in EmbedPages}
    \cup {[kind |-> "error", has_headers |-> FALSE, retry_after |-> None,
           page |-> NoTags]}
    \cup {[kind |-> "error", has_headers |-> TRUE, retry_after |-> r,
           page |-> NoTags] : r \in RetryAfters \cup {None}}

\* no embed: None
NoEmbed ==
    [made |-> FALSE, title |-> "", description |-> "", uri |-> <<>>,
     thumb |-> "None"]

\* the first of the values that is not empty, '' if there is none
FirstOf(values) ==
    IF \E i \in 1..Len(values) : values[i] # ""
    THEN values[CHOOSE i \in 1..Len(values) :
                   values[i] # "" /\ \A j \in 1..(i - 1) : values[j] = ""]
    ELSE ""

\* lines 219-289: the page is decompressed and parsed, and the embed is
\* made of its title, description and thumbnail
MakeEmbed(page, thumb_fetched) ==
    LET readable == page.encoding # "gzip" \/ page.valid
        parsed == IF page.valid THEN page ELSE NoTags
        meta_title == FirstOf(<<parsed.og_title, parsed.twitter_title>>)
        embed_title == IF meta_title # "" THEN meta_title ELSE parsed.title
        embed_description ==
            FirstOf(<<parsed.og_description, parsed.twitter_description,
                      parsed.description, embed_title>>)
        embed_image == FirstOf(<<parsed.og_image, parsed.twitter_image,
                                 parsed.thumbnail>>)
        \* the thumbnail is read from thumb_rest, a name that is not
        \* defined: a fetched thumbnail is lost like one that was not
        embed_thumb_blob == "None"
    IN  IF ~readable THEN [err |-> "BadGzipFile", embed |-> NoEmbed]
        ELSE IF meta_title = "" /\ ~parsed.has_title
        THEN [err |-> "AttributeError", embed |-> NoEmbed]
        ELSE IF embed_title = "" THEN [err |-> "none", embed |-> NoEmbed]
        ELSE [err |-> "none",
              embed |-> [made |-> TRUE, title |-> embed_title,
                         description |-> embed_description, uri |-> UrlX,
                         thumb |-> embed_thumb_blob]]

InitEmbed ==
    /\ e_pc = "fetch"
    /\ e_attempts = 0 /\ e_log = <<>> /\ e_sleeps = <<>>
    /\ e_html = <<>> /\ e_embed = <<>> /\ e_err = "none"
    /\ IdleStrip /\ IdleFormat /\ IdleShorten /\ IdleMedia
    /\ IdleHref /\ IdleLoad

\* lines 181-216: one turn of the loop, and the return of line 220 when
\* the loop ends with nothing fetched
FetchAttempt ==
    /\ e_pc = "fetch"
    /\ e_attempts < max_attempts
    /\ \E o \in FetchOutcomes :
       LET step == RetryStep(o)
           again == step.do = "sleep" /\ e_attempts + 1 < max_attempts
       IN  /\ e_attempts' = e_attempts + 1
           /\ e_log' = Append(e_log, o)
           /\ e_html' = IF o.kind = "ok" THEN o.page ELSE e_html
           /\ e_sleeps' = IF o.kind # "ok" /\ step.do = "sleep"
                          THEN Append(e_sleeps, step.wait_time)
                          ELSE e_sleeps
           /\ e_err' = IF o.kind # "ok" /\ step.do = "raise"
                       THEN step.err ELSE e_err
           /\ e_pc' = CASE o.kind = "ok" -> "parse"
                        [] step.do = "raise" -> "raised"
                        [] again -> "fetch"
                        [] OTHER -> "returned"
           /\ e_embed' = IF o.kind # "ok" /\ step.do # "raise" /\ ~again
                         THEN NoEmbed ELSE e_embed
    /\ UNCHANGED <<s_vars, f_vars, t_vars, m_vars,
                   h_vars, l_vars>>

\* lines 222-289: the embed is made of the page fetched
ParseHtml ==
    /\ e_pc = "parse"
    /\ \E thumb_fetched \in BOOLEAN :
       LET r == MakeEmbed(e_html, thumb_fetched)
       IN  /\ e_err' = r.err
           /\ e_embed' = r.embed
           /\ e_pc' = IF r.err = "none" THEN "returned" ELSE "raised"
    /\ UNCHANGED <<e_attempts, e_log, e_sleeps, e_html,
                   s_vars, f_vars, t_vars, m_vars,
                   h_vars, l_vars>>

\* postEntry, lines 153-162: the record is created with the embed
\* _makeUrlEmbed returned; an exception of _makeUrlEmbed is not caught
\* and ends postEntry before send_post
PostEntry ==
    /\ e_pc \in {"returned", "raised"}
    /\ e_pc' = IF e_pc = "returned" THEN "posted" ELSE "post_failed"
    /\ UNCHANGED <<e_attempts, e_log, e_sleeps, e_html, e_embed, e_err,
                   s_vars, f_vars, t_vars, m_vars,
                   h_vars, l_vars>>

NextEmbed == FetchAttempt \/ ParseHtml \/ PostEntry

SpecEmbed == InitEmbed /\ [][NextEmbed]_vars

(***************************************************************************)
(* BlueskyUrlFlattener.replaceHref called on a text and a link target.     *)
(***************************************************************************)
\* the longest text the context has counted before the call, in bytes
MaxByteLength == 2

\* 'h://bsky.app'
UrlBsky == <<"h", ":", "/", "/">> \o BLUESKY_NETLOC

\* the link targets: profiles by handle and by identifier, a post of a
\* profile, other pages of bsky.app, a profile path on another host
Hrefs ==
    { UrlBskyProfile,
      UrlBsky \o ProfilePrefix \o <<"a", "l", "?", "q">>,
      UrlBsky \o ProfilePrefix
          \o <<"d", "i", "d", ":", "p", "l", "c", ":", "a", "1">>,
      UrlBsky \o ProfilePrefix \o <<"a", "-", "b">>,
      UrlBsky \o ProfilePrefix \o <<"a", "l", "/", "p">>,
      UrlBsky \o ProfilePrefix,
      UrlBsky \o <<"/", "a", "l">>,
      UrlBsky,
      UrlX \o ProfilePrefix \o <<"a", "l">>,
      UrlX }

\* the visible texts of the links
HrefTexts == {<<"a", "l">>, <<"é">>, <<>>}

\* the contexts of the calls: the bytes counted so far, and the spans the
\* flattener holds already
HrefContexts ==
    {[NewContext EXCEPT !.url_flattener = "bluesky", !.url_mode = URLMODE_ERASE,
                        !.text_length = n, !.byte_length = n, !.fl_urls = u] :
        n \in 0..MaxByteLength, u \in {<<>>, <<<<0, 1, UrlX>>>>}}

InitReplaceHref ==
    /\ h_pc = "call"
    /\ h_text \in HrefTexts
    /\ h_raw_url \in Hrefs
    /\ h_ctx \in HrefContexts
    /\ h_res = <<>>
    /\ IdleStrip /\ IdleFormat /\ IdleShorten /\ IdleMedia /\ IdleEmbed
    /\ IdleLoad

\* replaceHref returns a text; the spans are those of the context returned
ReplaceHrefCall ==
    /\ h_pc = "call"
    /\ h_res' = BlueskyReplaceHref(h_ctx, h_text, h_raw_url)
    /\ h_pc' = "returned"
    /\ UNCHANGED <<h_text, h_raw_url, h_ctx,
                   s_vars, f_vars, t_vars, m_vars, e_vars, l_vars>>

NextReplaceHref == ReplaceHrefCall

SpecReplaceHref == InitReplaceHref /\ [][NextReplaceHref]_vars

(***************************************************************************)
(* load_silos called on a configuration.                                   *)
(***************************************************************************)
\* the most sections a configuration has
MaxSections == 2

\* lines 134-141: the classes by their SILO_TYPE
silo_dict ==
    [print |-> "PrintSilo", bluesky |-> "BlueskySilo",
     facebook |-> "FacebookSilo", mastodon |-> "MastodonSilo",
     twitter |-> "TwitterSilo", webmention |-> "WebmentionSilo"]

\* 'silo:'
SiloPrefix == <<"s", "i", "l", "o", ":">>

\* sn.startswith('silo:')
IsSiloSection(sn) ==
    Len(sn) >= Len(SiloPrefix) /\ SubSeq(sn, 1, Len(SiloPrefix)) = SiloPrefix

\* _get_silo_section_names(config), as the sections of these names
GetSiloSectionNames(config) ==
    SelectSeq(config, LAMBDA sec : IsSiloSection(sec.name))

\* a variant of NoSiloType that takes an empty type for a type
NoSiloType_KeyOnly(sec) == ~sec.has_type

\* lines 148-149: not sec_items.get('type'), true of a section without a
\* type key and of one whose type is empty
NoSiloType(sec) == ~sec.has_type \/ sec.type = ""

RECURSIVE LoadSections(_, _)
\* lines 145-160, the loop over the sections left: [err, silos], each silo
\* its class and the silo_name of its creation context
LoadSections(secs, silos) ==
    IF secs = <<>> THEN [err |-> "none", silos |-> silos]
    ELSE IF NoSiloType(Head(secs))
    THEN [err |-> "No silo type specified", silos |-> <<>>]
    ELSE IF Head(secs).type \notin DOMAIN silo_dict
    THEN [err |-> "Unknown silo type", silos |-> <<>>]
    ELSE LoadSections(Tail(secs),
             Append(silos,
                    [class |-> silo_dict[Head(secs).type],
                     silo_name |-> SubSeq(Head(secs).name, 6,
                                          Len(Head(secs).name))]))

\* load_silos(config, cache): [err, silos]
LoadSilos(config) == LoadSections(GetSiloSectionNames(config), <<>>)

\* the names of the sections: 'silo:a', 'silo:b', 'main'
SectionNames ==
    {SiloPrefix \o <<"a">>, SiloPrefix \o <<"b">>, <<"m", "a", "i", "n">>}

\* the sections: with or without a type key, the type a registered one,
\* an empty one or an unknown one
Sections ==
    {[name |-> n, has_type |-> TRUE, type |-> t] :
        n \in SectionNames,
        t \in DOMAIN silo_dict \cup {"", "carrierpigeon"}}
    \cup {[name |-> n, has_type |-> FALSE, type |-> ""] : n \in SectionNames}

\* the configurations: at most MaxSections sections of different names
Configs ==
    {c \in UNION {[1..n -> Sections] : n \in 0..MaxSections} :
        \A i, j \in 1..Len(c) : c[i].name = c[j].name => i = j}

InitLoad ==
    /\ l_pc = "call"
    /\ l_config \in Configs
    /\ l_res = <<>>
    /\ IdleStrip /\ IdleFormat /\ IdleShorten /\ IdleMedia /\ IdleEmbed
    /\ IdleHref

\* load_silos returns the silos or raises
LoadSilosCall ==
    /\ l_pc = "call"
    /\ l_res' = LoadSilos(l_config)
    /\ l_pc' = IF LoadSilos(l_config).err = "none" THEN "returned" ELSE "raised"
    /\ UNCHANGED <<l_config, s_vars, f_vars, t_vars, m_vars, e_vars, h_vars>>

NextLoad == LoadSilosCall

SpecLoad == InitLoad /\ [][NextLoad]_vars

(***************************************************************************)
(* Helpers of the properties.                                              *)
(***************************************************************************)
RECURSIVE LinksIn(_)
\* the hyperlinks of a sequence of nodes, in document order
LinksIn(nodes) ==
    IF nodes = <<>> THEN <<>>
    ELSE (IF Head(nodes).tag = "a" THEN <<Head(nodes)>>
          ELSE LinksIn(Head(nodes).kids)) \o LinksIn(Tail(nodes))

RECURSIVE TextIn(_)
\* the visible text of a sequence of nodes: its text nodes, concatenated
TextIn(nodes) ==
    IF nodes = <<>> THEN <<>>
    ELSE (IF Head(nodes).tag = "text" THEN Head(nodes).txt
          ELSE TextIn(Head(nodes).kids)) \o TextIn(Tail(nodes))

RECURSIVE TagsIn(_)
\* the tags of the elements of a sequence of nodes
TagsIn(nodes) ==
    IF nodes = <<>> THEN {}
    ELSE {Head(nodes).tag} \cup TagsIn(Head(nodes).kids) \cup TagsIn(Tail(nodes))

RECURSIVE Count(_, _)
\* the number of occurrences of the character c in s
Count(s, c) ==
    IF s = <<>> THEN 0
    ELSE (IF Head(s) = c THEN 1 ELSE 0) + Count(Tail(s), c)

EndsWith(s, t) == Len(s) >= Len(t) /\ SubSeq(s, Len(s) - Len(t) + 1, Len(s)) = t

\* the stripping pass ran without a character limit
Unlimited == s_ctx.limit <= 0

(***************************************************************************)
(* strip_html.                                                             *)
(***************************************************************************)
\* url_mode LAST, the default flattener, no profile handler, no limit, and
\* a document with one hyperlink, whose text is a substring of its href,
\* and no ordered list
C2_OneBareLink ==
    /\ s_ctx.url_mode = URLMODE_LAST
    /\ s_ctx.url_flattener = "null"
    /\ s_ctx.handlers = <<>>
    /\ Unlimited
    /\ "ol" \notin TagsIn(s_doc)
    /\ Len(LinksIn(s_doc)) = 1
    /\ LET a == LinksIn(s_doc)[1] IN IsSubstring(TextIn(a.kids), a.href)

\* C2: with url_mode LAST, a document with exactly one bare link is
\* stripped without an exception, and the text returned ends with the href,
\* which occurs nowhere before, after exactly one space.
C2_BareLinkAppendedOnce ==
    (s_pc # "call" /\ C2_OneBareLink) =>
        /\ s_pc = "returned"
        /\ LET href == LinksIn(s_doc)[1].href
               n == Len(s_text) - Len(href)
           IN  /\ EndsWith(s_text, <<" ">> \o href)
               /\ ~IsSubstring(href, SubSeq(s_text, 1, n))
               /\ n >= 2 => ~IsSpaceChar(s_text[n - 1])

\* C3, as stated: with url_mode ERASE the text strip_html returns contains
\* the href of none of the document's hyperlinks.
C3_NoHrefInErasedText ==
    (s_pc = "returned" /\ s_ctx.url_mode = URLMODE_ERASE) =>
        \A i \in 1..Len(LinksIn(s_doc)) :
            ~IsSubstring(LinksIn(s_doc)[i].href, s_text)

\* C3, amended: with url_mode ERASE strip_html adds no href to the text:
\* an href occurs in the returned text only if the document's visible text
\* spells it, so a link whose text is ordinary words leaves no URL.
C3_ErasedTextHasOnlyVisibleUrls ==
    (s_pc = "returned" /\ s_ctx.url_mode = URLMODE_ERASE) =>
        \A i \in 1..Len(LinksIn(s_doc)) :
            IsSubstring(LinksIn(s_doc)[i].href, s_text)
                => IsSubstring(LinksIn(s_doc)[i].href, TextIn(s_doc))

\* C3, witness: a link with words for text was stripped in ERASE mode and
\* left its text
C3_Witness ==
    /\ s_pc = "returned"
    /\ s_ctx.url_mode = URLMODE_ERASE
    /\ s_doc = <<Txt(<<"a", "b", " ", "c", "d">>), Link(UrlX, <<Txt(<<"g", "o">>)>>)>>
    /\ s_text = <<"a", "b", " ", "c", "d", "g", "o">>

RECURSIVE OrderedItems(_, _)
\* the rendering the claim gives the children of an <ol>, the next list
\* item being the i-th
OrderedItems(nodes, i) ==
    IF nodes = <<>> THEN <<>>
    ELSE IF Head(nodes).tag # "li" THEN OrderedItems(Tail(nodes), i)
    ELSE DecimalOf(i) \o <<".", " ">> \o TextIn(Head(nodes).kids) \o <<"\n">>
         \o OrderedItems(Tail(nodes), i + 1)

\* C6: an <ol> is stripped without an exception and its i-th list item,
\* counting list items only, is rendered as '<i>. ' + text + newline.
C6_OrderedListNumbered ==
    (s_pc # "call" /\ Unlimited /\ Len(s_doc) = 1 /\ s_doc[1].tag = "ol") =>
        /\ s_pc = "returned"
        /\ s_text = OrderedItems(s_doc[1].kids, 1)

\* a document of paragraphs only, stripped without limit
C7_ParagraphsOnly ==
    /\ Unlimited
    /\ s_doc # <<>>
    /\ \A i \in 1..Len(s_doc) : s_doc[i].tag = "p"

C7_TextParagraph(p) ==
    /\ p.kids # <<>>
    /\ \A k \in 1..Len(p.kids) : p.kids[k].tag = "text" /\ p.kids[k].txt # <<>>

RECURSIVE C7_Joined(_)
\* the paragraphs' texts (with '%' as written), a newline between each two
C7_Joined(ps) ==
    IF ps = <<>> THEN <<>>
    ELSE TextIn(Head(ps).kids)
         \o (IF Tail(ps) = <<>> THEN <<>> ELSE <<"\n">>) \o C7_Joined(Tail(ps))

C1_ShortenedCardFitsLimit ==
    (f_pc = "returned" /\ f_res.restarted /\ f_args.limit > 0) =>
        Len(f_res.text) <= f_args.limit

\* the card's text ends with ' ' + the entry's URL
C4_UrlAppended ==
    f_entry.url # None /\ EndsWith(f_res.text, <<" ">> \o f_entry.url)

\* a limit is set and the length tracked by the first pass exceeds it
C4_Overflows == f_args.limit # 0 /\ f_res.first_length > f_args.limit

C5_ShortenTextAsSpecified ==
    (t_pc # "call" /\ t_limit >= 3) =>
        /\ t_pc = "returned"
        /\ LET m == SentenceEnd(t_txt)
           IN  IF Len(t_txt) <= t_limit
               THEN t_res.text = t_txt /\ ~t_res.shortened
               ELSE IF m # 0 /\ m <= t_limit + 1
               THEN t_res.text = SubSeq(t_txt, 1, m - 1) /\ t_res.shortened
               ELSE /\ t_res.shortened
                    /\ Len(t_res.text) <= t_limit
                    /\ EndsWith(t_res.text, <<".", ".", ".">>)

(***************************************************************************)
(* upload_silo_media.                                                      *)
(***************************************************************************)
\* the call returned for a card with a forced image
C8_ForcedImageReturned == m_pc = "returned" /\ m_card.image # ""

\* the callback was called once, for the forced image, the media property
\* was not read, and the list of the image's handle alone was returned
C8_OnlyForcedImage ==
    /\ Len(m_calls) = 1
    /\ m_calls[1].url = m_card.image
    /\ m_downloads = <<m_card.image>>
    /\ ~m_read
    /\ m_ids = <<MediaId(m_card.image)>>

\* C8, as stated: given a card with a forced image, whatever the callback
\* returns, upload_silo_media calls it exactly once, for that image, never
\* reads the entry's media property and returns the list of that image's
\* handle alone.
C8_ForcedImageAlwaysAlone == C8_ForcedImageReturned => C8_OnlyForcedImage

\* C8, amended: given a card with a forced image, the callback is first
\* called for that image, without description; if it returns a handle
\* (anything but None) the call is as C8 states, and if it returns None
\* the media property is read and the call goes on as without forced
\* image.
C8_ForcedImageAloneUnlessNone ==
    C8_ForcedImageReturned =>
        /\ m_calls # <<>>
        /\ m_calls[1].url = m_card.image
        /\ m_calls[1].desc = None
        /\ IF m_calls[1].ret = "mid" THEN C8_OnlyForcedImage ELSE m_read

\* C8, witness: a call returned the forced image's handle alone though
\* the entry has media
C8_Witness ==
    /\ C8_ForcedImageReturned
    /\ m_card.media # <<>>
    /\ m_calls[1].ret = "mid"
    /\ C8_OnlyForcedImage

\* the first k media entries were given to the callback, each once and in
\* the order of the property, each with its own downloaded file
C9_CallsAreEntries(k) ==
    /\ Len(m_calls) = k
    /\ \A i \in 1..k :
          /\ m_calls[i].url = m_card.media[i].value
          /\ m_calls[i].desc = ImgUrlAndAlt(m_card.media[i]).desc
          /\ m_calls[i].tmpfile = i

\* C9: given a card with no forced image and a media property of n items,
\* a call that returns has called the callback exactly once per item, in
\* the order of the property; when the call has ended, by return or by
\* exception, the temporary directory and every file in it are gone; when
\* the callback raises for an item the call raises, the items before were
\* called for in order, and no later item was downloaded or uploaded.
C9_OncePerItemThenCleanedUp ==
    m_card.image = "" =>
        /\ m_pc = "returned" =>
              /\ C9_CallsAreEntries(Len(m_card.media))
              /\ Len(m_downloads) = Len(m_card.media)
        /\ m_pc \in {"returned", "raised"} => ~m_tmpdir /\ m_files = {}
        /\ (m_calls # <<>> /\ Last(m_calls).ret = "callback_raised") =>
              /\ m_pc = "raised"
              /\ m_err = "Exception"
              /\ C9_CallsAreEntries(m_idx)
              /\ Len(m_downloads) = m_idx

\* C9, witness: with two media entries, the callback raised for the first,
\* after its file was downloaded
C9_Witness ==
    /\ m_card.image = ""
    /\ Len(m_card.media) = 2
    /\ m_pc = "raised"
    /\ Len(m_calls) = 1
    /\ m_calls[1].ret = "callback_raised"
    /\ m_downloads = <<m_card.media[1].value>>

(***************************************************************************)
(* _makeUrlEmbed.                                                          *)
(***************************************************************************)
\* the call has ended, every fetch failed and no failure had a Retry-After
\* header
C10_AllFailedWithoutRetryAfter ==
    /\ e_pc \in {"returned", "raised"}
    /\ e_log # <<>>
    /\ \A i \in 1..Len(e_log) :
          /\ e_log[i].kind = "error"
          /\ ~e_log[i].has_headers \/ e_log[i].retry_after = None

\* C10, as stated: when every fetch fails and no failure carries a
\* Retry-After header, _makeUrlEmbed makes exactly 3 fetch attempts and
\* then returns no embed.
C10_ThreeAttemptsThenNoEmbed ==
    C10_AllFailedWithoutRetryAfter =>
        /\ e_attempts = max_attempts
        /\ e_pc = "returned"
        /\ ~e_embed.made

\* C10, amended: when the fetch fails and the failure carries no
\* Retry-After header, _makeUrlEmbed makes exactly one fetch attempt,
\* does not wait, and returns no embed.
C10_OneAttemptThenNoEmbed ==
    C10_AllFailedWithoutRetryAfter =>
        /\ e_attempts = 1
        /\ Len(e_log) = 1
        /\ e_sleeps = <<>>
        /\ e_pc = "returned"
        /\ ~e_embed.made

\* C10, witness: the call ended without embed after a fetch that failed
\* with headers but no Retry-After header
C10_Witness ==
    /\ C10_AllFailedWithoutRetryAfter
    /\ e_log[1].has_headers
    /\ e_pc = "returned"
    /\ ~e_embed.made

\* the i-th fetch failed with a Retry-After header that spells a whole
\* number
C11_WholeNumber(i) ==
    /\ e_log[i].kind = "error" /\ e_log[i].has_headers
    /\ e_log[i].retry_after \notin {None, <<>>}
    /\ \A j \in 1..Len(e_log[i].retry_after) :
          e_log[i].retry_after[j] \in Digits

\* C11: a failed fetch whose Retry-After is a non-negative number r with
\* r + 1 <= 60 makes _makeUrlEmbed wait exactly r + 1 seconds and fetch
\* again, every wait being followed by another attempt and no run making
\* more than 3 attempts; a failed fetch whose Retry-After needs a wait
\* above 60 seconds makes it abort at once, without waiting, with no embed.
C11_WaitsThenFetchesAgain ==
    /\ e_attempts <= max_attempts
    /\ \A i \in 1..Len(e_log) :
          C11_WholeNumber(i) =>
             IF NatOf(e_log[i].retry_after) + 1 <= MaxWait
             THEN /\ Len(e_sleeps) >= i
                  /\ e_sleeps[i] = NatOf(e_log[i].retry_after) + 1
                  /\ e_pc # "fetch" => Len(e_log) > i
             ELSE /\ Len(e_sleeps) < i
                  /\ Len(e_log) = i
                  /\ e_pc \in {"returned", "posted"}
                  /\ e_embed = NoEmbed

\* the i-th fetch failed without a Retry-After header, or with one that
\* is no number or is a negative number
C15_NoGuidance(i) ==
    /\ e_log[i].kind = "error"
    /\ \/ ~e_log[i].has_headers
       \/ e_log[i].retry_after = None
       \/ FloatOf(e_log[i].retry_after).kind = "ValueError"
       \/ /\ FloatOf(e_log[i].retry_after).kind = "finite"
          /\ FloatOf(e_log[i].retry_after).neg

\* C15: a failed fetch whose Retry-After header is unparsable or is any
\* negative number, or that carries no Retry-After header, makes
\* _makeUrlEmbed abort at once: it does not wait, makes no further attempt
\* and returns no embed.
C15_AbortsAtOnce ==
    \A i \in 1..Len(e_log) :
       C15_NoGuidance(i) =>
          /\ Len(e_sleeps) < i
          /\ Len(e_log) = i
          /\ e_pc \in {"returned", "posted"}
          /\ e_embed = NoEmbed

\* C16: building the link-preview embed never makes postEntry fail:
\* whatever the fetches meet and whatever page is fetched, a page without
\* any title included, _makeUrlEmbed returns normally and the post is
\* created.
C16_PostNeverFails ==
    /\ e_pc \notin {"raised", "post_failed"}
    /\ e_err = "none"

(***************************************************************************)
(* format_entry: the second pass and the entry's URL.                      *)
(***************************************************************************)
\* C18: when format_entry restarts the stripping pass, the second pass
\* runs with the silo type, the profile-URL handlers, the url_mode and the
\* flattener that were given to format_entry; it differs from the first
\* only in its limit and in starting from cleared counters and records.
C18_SecondPassKeepsSettings ==
    (f_pc = "returned" /\ f_res.restarted) =>
        /\ f_res.ctx.url_flattener = f_args.silo.url_flattener
        /\ f_res.ctx.silo_type = f_args.silo.silo_type
        /\ f_res.ctx.handlers = f_args.silo.handlers
        /\ f_res.ctx.url_mode = f_args.silo.url_mode

\* format_entry was called as BlueskySilo.getEntryCard calls it, and
\* returned a card with the entry's URL appended
C19_CardWithUrl ==
    /\ f_pc = "returned"
    /\ f_args.silo.silo_type = "bluesky"
    /\ f_args.card_props /\ f_args.add_url = "auto" /\ f_args.limit > 0
    /\ f_res.url_added

\* C19: whenever getEntryCard returns a card with the entry URL appended,
\* the span the flattener recorded for that URL is exactly the UTF-8 byte
\* range the URL occupies at the end of the card's text.
C19_UrlSpanIsWhereUrlIs ==
    C19_CardWithUrl =>
        /\ f_res.ctx.fl_urls # <<>>
        /\ EndsWith(f_res.text, <<" ">> \o f_entry.url)
        /\ Last(f_res.ctx.fl_urls) =
              <<ByteLen(f_res.text) - ByteLen(f_entry.url),
                ByteLen(f_res.text), f_entry.url>>

(***************************************************************************)
(* strip_html: the spans of the Bluesky flattener and the tracked length.  *)
(***************************************************************************)
\* the bytes start..end of the text are the visible text of a hyperlink
\* of the document whose href is url
C13_DelimitsLink(text, start, end, url) ==
    \E a, b \in 0..Len(text) :
       /\ a <= b
       /\ ByteLen(SubSeq(text, 1, a)) = start
       /\ ByteLen(SubSeq(text, 1, b)) = end
       /\ \E k \in 1..Len(LinksIn(s_doc)) :
             /\ LinksIn(s_doc)[k].href = url
             /\ TextIn(LinksIn(s_doc)[k].kids) = SubSeq(text, a + 1, b)

\* C13: every span the Bluesky flattener records during a stripping pass
\* is a pair of UTF-8 byte offsets into the text returned, lies within
\* that text, and delimits exactly the visible text of the link there.
C13_SpansDelimitLinkTexts ==
    (s_pc = "returned" /\ s_ctx.url_flattener = "bluesky") =>
        \A i \in 1..Len(s_ctx.fl_urls) :
           C13_DelimitsLink(s_text, s_ctx.fl_urls[i][1], s_ctx.fl_urls[i][2],
                            s_ctx.fl_urls[i][3])

\* C17: after strip_html returns without the limit having been reached,
\* on a document without ordered list, the tracked character count equals
\* the length of the text returned, or exceeds it by at most one for the
\* separator of url_mode LAST or BOTTOM_LIST.
C17_TrackedLengthIsTextLength ==
    (s_pc = "returned" /\ ~s_ctx.limit_reached /\ "ol" \notin TagsIn(s_doc)) =>
        \/ s_ctx.text_length = Len(s_text)
        \/ /\ s_ctx.url_mode \in {URLMODE_LAST, URLMODE_BOTTOM_LIST}
           /\ s_ctx.text_length = Len(s_text) + 1

(***************************************************************************)
(* BlueskyUrlFlattener.replaceHref.                                        *)
(***************************************************************************)
\* the path is /profile/<handle>, the handle made of letters, digits,
\* dots and hyphens, or /profile/did:plc:<identifier>
C12_ProfilePath(path) ==
    /\ Len(path) > Len(ProfilePrefix)
    /\ SubSeq(path, 1, Len(ProfilePrefix)) = ProfilePrefix
    /\ \/ \A i \in (Len(ProfilePrefix) + 1)..Len(path) :
             path[i] \in Lower \cup Upper \cup Digits \cup {".", "-"}
       \/ /\ Len(path) > Len(ProfilePrefix) + 8
          /\ SubSeq(path, Len(ProfilePrefix) + 1, Len(ProfilePrefix) + 8)
                = <<"d", "i", "d", ":", "p", "l", "c", ":">>
          /\ \A i \in (Len(ProfilePrefix) + 9)..Len(path) :
                path[i] \in Lower \cup Upper \cup Digits

\* C12: replaceHref returns '@' + the full handle (or the full
\* did:plc:<identifier>) and records no span if and only if the href's
\* host is bsky.app and its path is a profile path; for every other href
\* it returns the visible text unchanged and records exactly one span.
C12_MentionIffProfile ==
    h_pc = "returned" =>
        IF /\ UrlParse(h_raw_url).netloc = BLUESKY_NETLOC
           /\ C12_ProfilePath(UrlParse(h_raw_url).path)
        THEN /\ h_res.txt = <<"@">> \o SubSeq(UrlParse(h_raw_url).path,
                                               Len(ProfilePrefix) + 1,
                                               Len(UrlParse(h_raw_url).path))
             /\ h_res.ctx.fl_urls = h_ctx.fl_urls
        ELSE /\ h_res.txt = h_text
             /\ Len(h_res.ctx.fl_urls) = Len(h_ctx.fl_urls) + 1
             /\ Last(h_res.ctx.fl_urls)[3] = h_raw_url

(***************************************************************************)
(* load_silos.                                                             *)
(***************************************************************************)
\* the sections named 'silo:<name>', in the order of the configuration
C14_SiloSections == SelectSeq(l_config, LAMBDA sec : IsSiloSection(sec.name))

\* the section declares one of the six registered types
C14_Registered(sec) ==
    /\ sec.has_type
    /\ sec.type \in {"print", "bluesky", "facebook", "mastodon", "twitter",
                      "webmention"}

\* the first section named 'silo:<name>' that declares no registered type
C14_FirstBad ==
    C14_SiloSections[CHOOSE i \in 1..Len(C14_SiloSections) :
                        /\ ~C14_Registered(C14_SiloSections[i])
                        /\ \A j \in 1..(i - 1) :
                              C14_Registered(C14_SiloSections[j])]

\* load_silos returned one silo per section named 'silo:<name>', in
\* order, each of the class registered for its type and named <name>
C14_OneSiloPerSection ==
    /\ l_pc = "returned"
    /\ l_res.err = "none"
    /\ Len(l_res.silos) = Len(C14_SiloSections)
    /\ \A i \in 1..Len(C14_SiloSections) :
          /\ SiloPrefix \o l_res.silos[i].silo_name = C14_SiloSections[i].name
          /\ l_res.silos[i].class = silo_dict[C14_SiloSections[i].type]

\* C14, as stated: load_silos returns one silo per section named
\* 'silo:<name>', in configuration order, each of the class registered
\* for its type and named <name>; it fails and returns no silos when such
\* a section has no type key (MissingConfiguration: "No silo type
\* specified") or a type outside the registry (UnknownSiloType: "Unknown
\* silo type").
C14_LoadsOrFailsByTypeKey ==
    l_pc # "call" =>
        IF \A i \in 1..Len(C14_SiloSections) :
              C14_Registered(C14_SiloSections[i])
        THEN C14_OneSiloPerSection
        ELSE /\ l_pc = "raised"
             /\ l_res.silos = <<>>
             /\ l_res.err = IF ~C14_FirstBad.has_type
                            THEN "No silo type specified"
                            ELSE "Unknown silo type"

\* C14, amended: as stated, but the failure is the one of a missing type
\* ("No silo type specified") also when the section has a type key whose
\* value is empty; a type that is not empty and not in the registry fails
\* as an unknown type.
C14_LoadsOrFailsByTypeValue ==
    l_pc # "call" =>
        IF \A i \in 1..Len(C14_SiloSections) :
              C14_Registered(C14_SiloSections[i])
        THEN C14_OneSiloPerSection
        ELSE /\ l_pc = "raised"
             /\ l_res.silos = <<>>
             /\ l_res.err = IF ~C14_FirstBad.has_type \/ C14_FirstBad.type = ""
                            THEN "No silo type specified"
                            ELSE "Unknown silo type"

\* C14, witness: a configuration whose second section is a silo of type
\* carrierpigeon, after a silo of a registered type: load_silos failed
\* with the unknown type and returned nothing
C14_Witness ==
    /\ l_pc = "raised"
    /\ Len(l_config) = 2
    /\ IsSiloSection(l_config[1].name) /\ l_config[1].has_type
    /\ l_config[1].type = "bluesky"
    /\ IsSiloSection(l_config[2].name) /\ l_config[2].has_type
    /\ l_config[2].type = "carrierpigeon"
    /\ l_res.err = "Unknown silo type"
    /\ l_res.silos = <<>>

====
